---- MODULE Spec2Model ----
(***************************************************************************)
(* Quiz authoring, attempt, scoring and result viewing of the e-learning   *)
(* portal (src/main.py).  The five quiz tables are the state; every route  *)
(* handler is one action, except take_quiz, whose transaction is split at  *)
(* its flush / loop / commit points so that other requests can be          *)
(* interleaved with an in-flight submission.                               *)
(*                                                                         *)
(* Strings are sequences of one-character strings, so that str(), int()    *)
(* and strip() are computed and not assumed.  Attempt.score is a Python    *)
(* float; it is kept here as the exact fraction <<numerator, denominator>> *)
(* (floating-point rounding is outside the model).                         *)
(***************************************************************************)
EXTENDS Integers, Sequences, FiniteSets, TLC

\* ------------------------------------------------------------------ bounds
MaxQuizzes == 1
MaxAttempts == 1
MaxFormIndex == 3

\* --------------------------------------------------------- python values
\* None: what request.form.get returns for a missing key, and SQL NULL.
None == <<"None">>

Digits == <<"0", "1", "2", "3", "4", "5", "6", "7", "8", "9">>

IsDigit(c) == \E d \in 1..10 : Digits[d] = c

DigitVal(c) == (CHOOSE d \in 1..10 : Digits[d] = c) - 1

IsSpace(c) == c = " "

\* `not v` for a form value: None and the empty string are falsy.
Falsy(v) == v = None \/ v = <<>>

RECURSIVE LStrip(_)
LStrip(s) == IF s # <<>> /\ IsSpace(Head(s)) THEN LStrip(Tail(s)) ELSE s

RECURSIVE RStrip(_)
RStrip(s) ==
  IF s # <<>> /\ IsSpace(s[Len(s)]) THEN RStrip(SubSeq(s, 1, Len(s) - 1)) ELSE s

\* str.strip()
Strip(s) == RStrip(LStrip(s))

\* str(n) for n >= 0
RECURSIVE Str(_)
Str(n) == IF n < 10 THEN <<Digits[n + 1]>> ELSE Str(n \div 10) \o <<Digits[(n % 10) + 1]>>

RECURSIVE DigitsVal(_, _)
DigitsVal(s, acc) ==
  IF s = <<>> THEN acc ELSE DigitsVal(Tail(s), 10 * acc + DigitVal(Head(s)))

\* int(s): surrounding whitespace and one sign are accepted, then digits only;
\* anything else raises ValueError (ok = FALSE).
IntParse(s) ==
  LET t == Strip(s)
      signed == t # <<>> /\ Head(t) \in {"-", "+"}
      body == IF signed THEN Tail(t) ELSE t
  IN  IF body # <<>> /\ \A k \in 1..Len(body) : IsDigit(body[k])
        THEN [ok |-> TRUE,
              val |-> IF signed /\ Head(t) = "-" THEN 0 - DigitsVal(body, 0)
                      ELSE DigitsVal(body, 0)]
        ELSE [ok |-> FALSE, val |-> 0]

\* request.form.get(key, "")
GetOr(v, default) == IF v = None THEN default ELSE v

\* ------------------------------------------------------ users and courses
\* User rows (the role is set at registration and never changes).
Users == 1..4

Role(u) == IF u \in {1, 2} THEN "instructor" ELSE "student"

is_instructor(u) == Role(u) = "instructor"

is_student(u) == Role(u) = "student"

\* The instructor_required decorator lets the request through.
instructor_required(u) == is_instructor(u)

\* Course rows: the one course is owned by instructor 2.
Courses == {1}

CourseInstructor(c) == 2

\* ids a request may name, one of them not in the table
CourseIds == Courses \cup {2}

\* ------------------------------------------------------------------ state
VARIABLES
  quizzes,    \* Quiz rows, id = position: [course_id, title]
  questions,  \* Question rows: [quiz_id, text]
  choices,    \* Choice rows: [question_id, text, is_correct]
  attempts,   \* committed Attempt rows: [quiz_id, student_id, started_at, completed_at, score]
  answers,    \* committed AttemptAnswer rows: [attempt_id, question_id, choice_id]
  tx,         \* the take_quiz transaction in flight (flushed, not committed)
  resp        \* the response of the last request that completed

vars == <<quizzes, questions, choices, attempts, answers, tx, resp>>

authoring == <<quizzes, questions, choices>>

Idle == [pc |-> "idle"]

NoView == [answers_by_q |-> <<>>, correct_by_question |-> <<>>,
           student_choice_by_question |-> <<>>]

Response(op, actor, target, outcome, form, view) ==
  [op |-> op, actor |-> actor, target |-> target, outcome |-> outcome,
   form |-> form, view |-> view]

Init ==
  /\ quizzes = <<>>
  /\ questions = <<>>
  /\ choices = <<>>
  /\ attempts = <<>>
  /\ answers = <<>>
  /\ tx = Idle
  /\ resp = Response("none", 0, 0, "none", <<>>, NoView)

\* ------------------------------------------------------------ relationships
\* A lazy relationship load: the rows with the foreign key, in rowid order.
RECURSIVE Filter(_, _, _, _)
Filter(table, field, key, k) ==
  IF k > Len(table) THEN <<>>
  ELSE (IF table[k][field] = key THEN <<k>> ELSE <<>>) \o Filter(table, field, key, k + 1)

\* quiz.questions
QuestionsOf(qs, quiz_id) == Filter(qs, "quiz_id", quiz_id, 1)

\* question.choices
ChoicesOf(cs, question_id) == Filter(cs, "question_id", question_id, 1)

\* attempt.answers
AnswersOf(as, attempt_id) == Filter(as, "attempt_id", attempt_id, 1)

Range(s) == {s[k] : k \in DOMAIN s}

\* ------------------------------------------------------------- create_quiz
\* for c_index in range(1, 5)
ChoiceRangeStart == 1
ChoiceRangeStop == 5

\* request.form.get(f"q{index}_text")
FormQText(form, index) == IF index \in DOMAIN form.q THEN form.q[index].text ELSE None

\* request.form.get(f"q{index}_choice{c_index}")
FormQChoice(form, index, c_index) ==
  IF index \in DOMAIN form.q /\ c_index \in DOMAIN form.q[index].choice
    THEN form.q[index].choice[c_index] ELSE None

\* request.form.get(f"q{index}_correct")
FormQCorrect(form, index) == IF index \in DOMAIN form.q THEN form.q[index].correct ELSE None

\* CreateChoices with `break` in place of `continue`: the first absent or
\* empty choice field ends the loop.
RECURSIVE CreateChoices_Stopping(_, _, _, _, _)
CreateChoices_Stopping(form, index, question_id, c_index, cs) ==
  IF c_index >= ChoiceRangeStop THEN cs
  ELSE LET c_text == FormQChoice(form, index, c_index)
       IN  IF Falsy(c_text) THEN cs
           ELSE CreateChoices_Stopping(form, index, question_id, c_index + 1,
                  Append(cs, [question_id |-> question_id,
                              text |-> Strip(c_text),
                              is_correct |-> (FormQCorrect(form, index) = Str(c_index))]))

\* CreateChoices with the flag compared against a zero-based choice index.
RECURSIVE CreateChoices_ZeroBased(_, _, _, _, _)
CreateChoices_ZeroBased(form, index, question_id, c_index, cs) ==
  IF c_index >= ChoiceRangeStop THEN cs
  ELSE LET c_text == FormQChoice(form, index, c_index)
       IN  IF Falsy(c_text)
             THEN CreateChoices_ZeroBased(form, index, question_id, c_index + 1, cs)
             ELSE CreateChoices_ZeroBased(form, index, question_id, c_index + 1,
                    Append(cs, [question_id |-> question_id,
                                text |-> Strip(c_text),
                                is_correct |->
                                  (FormQCorrect(form, index) = Str(c_index - 1))]))

\* The inner loop over the four choice fields of question `index`.
RECURSIVE CreateChoices(_, _, _, _, _)
CreateChoices(form, index, question_id, c_index, cs) ==
  IF c_index >= ChoiceRangeStop THEN cs
  ELSE LET c_text == FormQChoice(form, index, c_index)
       IN  IF Falsy(c_text)
             THEN CreateChoices(form, index, question_id, c_index + 1, cs)
             ELSE CreateChoices(form, index, question_id, c_index + 1,
                    Append(cs, [question_id |-> question_id,
                                text |-> Strip(c_text),
                                is_correct |-> (FormQCorrect(form, index) = Str(c_index))]))

\* CreateQuestions with `continue` in place of `break`: an absent or empty
\* q{index}_text is skipped and the later indices are still read.
RECURSIVE CreateQuestions_Skipping(_, _, _, _, _)
CreateQuestions_Skipping(form, index, quiz_id, qs, cs) ==
  LET q_text == FormQText(form, index)
  IN  IF index > MaxFormIndex THEN <<qs, cs>>
      ELSE IF Falsy(q_text) THEN CreateQuestions_Skipping(form, index + 1, quiz_id, qs, cs)
      ELSE LET qs2 == Append(qs, [quiz_id |-> quiz_id, text |-> Strip(q_text)])
           IN  CreateQuestions_Skipping(form, index + 1, quiz_id, qs2,
                 CreateChoices(form, index, Len(qs2), ChoiceRangeStart, cs))

\* The `while True` loop over q{index}_text: <<questions, choices>> after it.
RECURSIVE CreateQuestions(_, _, _, _, _)
CreateQuestions(form, index, quiz_id, qs, cs) ==
  LET q_text == FormQText(form, index)
  IN  IF Falsy(q_text) THEN <<qs, cs>>
      ELSE LET qs2 == Append(qs, [quiz_id |-> quiz_id, text |-> Strip(q_text)])
           IN  CreateQuestions(form, index + 1, quiz_id, qs2,
                 CreateChoices(form, index, Len(qs2), ChoiceRangeStart, cs))

\* course.instructor_id != current_user.id
CreateNotOwner(actor, course_id) == CourseInstructor(course_id) # actor

\* POST /courses/<course_id>/quizzes/create
CreateQuiz(actor, course_id, form) ==
  /\ UNCHANGED <<attempts, answers, tx>>
  /\ IF ~instructor_required(actor)
       THEN /\ resp' = Response("create", actor, course_id, "denied", <<>>, NoView)
            /\ UNCHANGED authoring
     ELSE IF course_id \notin Courses
       THEN /\ resp' = Response("create", actor, course_id, "notfound", <<>>, NoView)
            /\ UNCHANGED authoring
     ELSE IF CreateNotOwner(actor, course_id)
       THEN /\ resp' = Response("create", actor, course_id, "denied", <<>>, NoView)
            /\ UNCHANGED authoring
     ELSE IF Strip(GetOr(form.title, <<>>)) = <<>>
       THEN /\ resp' = Response("create", actor, course_id, "invalid", <<>>, NoView)
            /\ UNCHANGED authoring
     ELSE /\ tx.pc = "idle"
          /\ Len(quizzes) < MaxQuizzes
          /\ LET title == Strip(GetOr(form.title, <<>>))
                 quiz_id == Len(quizzes) + 1
                 parsed == CreateQuestions(form, 1, quiz_id, questions, choices)
             IN  /\ quizzes' = Append(quizzes, [course_id |-> course_id, title |-> title])
                 /\ questions' = parsed[1]
                 /\ choices' = parsed[2]
                 /\ resp' = Response("create", actor, course_id, "ok", form, NoView)

\* --------------------------------------------------------------- edit_quiz
\* request.form.get(f"q{question.id}_text", "")
EditQText(form, question_id) ==
  IF question_id \in DOMAIN form.q THEN GetOr(form.q[question_id].text, <<>>) ELSE <<>>

\* request.form.get(f"q{question.id}_correct")
EditQCorrect(form, question_id) ==
  IF question_id \in DOMAIN form.q THEN form.q[question_id].correct ELSE None

\* request.form.get(f"choice{choice.id}_text", "")
EditCText(form, choice_id) ==
  IF choice_id \in DOMAIN form.c THEN GetOr(form.c[choice_id], <<>>) ELSE <<>>

\* EditIsCorrect comparing numbers, not strings.
EditIsCorrect_Numeric(choice_id, correct_choice_id) ==
  ~Falsy(correct_choice_id) /\ IntParse(correct_choice_id).val = choice_id

\* bool(correct_choice_id and str(choice.id) == correct_choice_id)
EditIsCorrect(choice_id, correct_choice_id) ==
  ~Falsy(correct_choice_id) /\ Str(choice_id) = correct_choice_id

\* One pass of the outer loop body on a Question row.
EditQuestion(form, row, question_id) ==
  LET q_text == Strip(EditQText(form, question_id))
  IN  IF q_text # <<>> THEN [row EXCEPT !.text = q_text] ELSE row

\* EditChoice that sets the flag of the named choice and clears no other.
EditChoice_NoClear(form, row, choice_id) ==
  LET c_text == Strip(EditCText(form, choice_id))
      named == IF c_text # <<>> THEN [row EXCEPT !.text = c_text] ELSE row
  IN  [named EXCEPT
         !.is_correct =
            @ \/ EditIsCorrect(choice_id, EditQCorrect(form, row.question_id))]

\* One pass of the inner loop body on a Choice row.
EditChoice(form, row, choice_id) ==
  LET c_text == Strip(EditCText(form, choice_id))
      named == IF c_text # <<>> THEN [row EXCEPT !.text = c_text] ELSE row
  IN  [named EXCEPT
         !.is_correct = EditIsCorrect(choice_id, EditQCorrect(form, row.question_id))]

\* EditNotOwner comparing the user with the course id, not with its instructor.
EditNotOwner_CourseId(actor, quiz_id) == quizzes[quiz_id].course_id # actor

\* quiz.course.instructor_id != current_user.id
EditNotOwner(actor, quiz_id) == CourseInstructor(quizzes[quiz_id].course_id) # actor

\* POST /quizzes/<quiz_id>/edit
EditQuiz(actor, quiz_id, form) ==
  /\ UNCHANGED <<attempts, answers, tx>>
  /\ IF ~instructor_required(actor)
       THEN /\ resp' = Response("edit", actor, quiz_id, "denied", <<>>, NoView)
            /\ UNCHANGED authoring
     ELSE IF quiz_id \notin DOMAIN quizzes
       THEN /\ resp' = Response("edit", actor, quiz_id, "notfound", <<>>, NoView)
            /\ UNCHANGED authoring
     ELSE IF EditNotOwner(actor, quiz_id)
       THEN /\ resp' = Response("edit", actor, quiz_id, "denied", <<>>, NoView)
            /\ UNCHANGED authoring
     ELSE /\ tx.pc = "idle"
          /\ LET new_title == Strip(GetOr(form.title, <<>>))
                 mine == Range(QuestionsOf(questions, quiz_id))
             IN  /\ quizzes' = IF new_title # <<>>
                                 THEN [quizzes EXCEPT ![quiz_id].title = new_title]
                                 ELSE quizzes
                 /\ questions' = [k \in DOMAIN questions |->
                                    IF k \in mine THEN EditQuestion(form, questions[k], k)
                                    ELSE questions[k]]
                 /\ choices' = [k \in DOMAIN choices |->
                                  IF choices[k].question_id \in mine
                                    THEN EditChoice(form, choices[k], k)
                                    ELSE choices[k]]
                 /\ resp' = Response("edit", actor, quiz_id, "ok", form, NoView)

\* --------------------------------------------------------------- take_quiz
\* datetime.utcnow(): the model keeps only that a time was stamped.
Stamp == <<"utcnow">>

\* request.form.get(f"question_{question.id}")
TakeChoiceId(form, question_id) ==
  IF question_id \in DOMAIN form THEN form[question_id] ELSE None

\* Choice.query.get(id): the row's id, or 0 for no row.
ChoiceGet(cs, id) == IF id \in DOMAIN cs THEN id ELSE 0

\* Score without the factor 100.
Score_Fraction(correct_count, total_questions) ==
  IF total_questions # 0 THEN <<correct_count, total_questions>> ELSE <<0, 1>>

\* (correct_count / total_questions) * 100 if total_questions else 0
Score(correct_count, total_questions) ==
  IF total_questions # 0 THEN <<100 * correct_count, total_questions>> ELSE <<0, 1>>

\* Discard that keeps what was flushed.
Discard_Keeps(committed, flushed) == committed \o flushed

\* An exception leaves the request before commit: the session is removed and
\* the flushed rows are rolled back.
Discard(committed, flushed) == committed

\* TakeDenied with the role misspelt.
TakeDenied_Misspelt(actor) == Role(actor) = "Instructor"

\* current_user.is_instructor()
TakeDenied(actor) == is_instructor(actor)

\* POST /quizzes/<quiz_id>/take, up to the start of the loop: the Attempt is
\* flushed (INSERTed inside the open transaction) and quiz.questions is loaded.
TakeQuizBegin(actor, quiz_id, form) ==
  /\ UNCHANGED <<authoring, attempts, answers>>
  /\ IF quiz_id \notin DOMAIN quizzes
       THEN /\ resp' = Response("take", actor, quiz_id, "notfound", <<>>, NoView)
            /\ UNCHANGED tx
     ELSE IF TakeDenied(actor)
       THEN /\ resp' = Response("take", actor, quiz_id, "denied", <<>>, NoView)
            /\ UNCHANGED tx
     ELSE /\ tx.pc = "idle"
          /\ Len(attempts) < MaxAttempts
          /\ tx' = [pc |-> "loop", actor |-> actor, quiz_id |-> quiz_id, form |-> form,
                    attempt_id |-> Len(attempts) + 1,
                    attempt |-> [quiz_id |-> quiz_id, student_id |-> actor,
                                 started_at |-> Stamp, completed_at |-> None,
                                 score |-> None],
                    answers |-> <<>>,
                    todo |-> QuestionsOf(questions, quiz_id),
                    correct_count |-> 0,
                    total_questions |-> Len(QuestionsOf(questions, quiz_id))]
          /\ UNCHANGED resp

\* TakeQuizAnswer that records an answer only when the id resolves to a Choice.
TakeQuizAnswer_OnlyResolved ==
  /\ tx.pc = "loop"
  /\ tx.todo # <<>>
  /\ UNCHANGED authoring
  /\ LET question_id == Head(tx.todo)
         choice_id == TakeChoiceId(tx.form, question_id)
         parsed == IntParse(choice_id)
         choice == ChoiceGet(choices, parsed.val)
     IN  IF Falsy(choice_id)
           THEN /\ tx' = [tx EXCEPT !.todo = Tail(tx.todo)]
                /\ UNCHANGED <<attempts, answers, resp>>
         ELSE IF ~parsed.ok
           THEN /\ tx' = Idle
                /\ attempts' = Discard(attempts, <<tx.attempt>>)
                /\ answers' = Discard(answers, tx.answers)
                /\ resp' = Response("take", tx.actor, tx.quiz_id, "error", <<>>, NoView)
         ELSE /\ tx' = [tx EXCEPT
                          !.todo = Tail(tx.todo),
                          !.correct_count =
                             IF choice # 0 /\ choices[choice].is_correct THEN @ + 1 ELSE @,
                          !.answers = IF choice # 0
                                        THEN Append(@, [attempt_id |-> tx.attempt_id,
                                                        question_id |-> question_id,
                                                        choice_id |-> parsed.val])
                                        ELSE @]
              /\ UNCHANGED <<attempts, answers, resp>>

\* One iteration of `for question in quiz.questions`.
TakeQuizAnswer ==
  /\ tx.pc = "loop"
  /\ tx.todo # <<>>
  /\ UNCHANGED authoring
  /\ LET question_id == Head(tx.todo)
         choice_id == TakeChoiceId(tx.form, question_id)
         parsed == IntParse(choice_id)
         choice == ChoiceGet(choices, parsed.val)
     IN  IF Falsy(choice_id)
           THEN /\ tx' = [tx EXCEPT !.todo = Tail(tx.todo)]
                /\ UNCHANGED <<attempts, answers, resp>>
         ELSE IF ~parsed.ok
           THEN /\ tx' = Idle
                /\ attempts' = Discard(attempts, <<tx.attempt>>)
                /\ answers' = Discard(answers, tx.answers)
                /\ resp' = Response("take", tx.actor, tx.quiz_id, "error", <<>>, NoView)
         ELSE /\ tx' = [tx EXCEPT
                          !.todo = Tail(tx.todo),
                          !.correct_count =
                             IF choice # 0 /\ choices[choice].is_correct THEN @ + 1 ELSE @,
                          !.answers = Append(@, [attempt_id |-> tx.attempt_id,
                                                 question_id |-> question_id,
                                                 choice_id |-> parsed.val])]
              /\ UNCHANGED <<attempts, answers, resp>>

\* After the loop: score, completed_at, commit.
TakeQuizCommit ==
  /\ tx.pc = "loop"
  /\ tx.todo = <<>>
  /\ UNCHANGED authoring
  /\ attempts' = Append(attempts,
                   [tx.attempt EXCEPT !.score = Score(tx.correct_count, tx.total_questions),
                                      !.completed_at = Stamp])
  /\ answers' = answers \o tx.answers
  /\ resp' = Response("take", tx.actor, tx.attempt_id, "ok", <<>>, NoView)
  /\ tx' = Idle

\* ----------------------------------------------------- view_attempt_result
\* answers_by_q: a dict comprehension, so the last answer of a question wins.
AnswersByQ(ans_ids) ==
  [q \in {answers[a].question_id : a \in Range(ans_ids)} |->
     CHOOSE a \in Range(ans_ids) :
       /\ answers[a].question_id = q
       /\ \A b \in Range(ans_ids) : answers[b].question_id = q => b <= a]

\* The first element of a sequence of ids that is in `wanted`, for `break`.
First(ids, wanted) ==
  ids[CHOOSE k \in DOMAIN ids : ids[k] \in wanted /\ \A j \in 1..(k - 1) : ids[j] \notin wanted]

\* correct_by_question
CorrectByQuestion(quiz_id) ==
  LET correct == {c \in DOMAIN choices : choices[c].is_correct}
      has == {q \in Range(QuestionsOf(questions, quiz_id)) :
                Range(ChoicesOf(choices, q)) \cap correct # {}}
  IN  [q \in has |-> First(ChoicesOf(choices, q), correct)]

\* StudentChoiceByQuestion resolving the stored id against the whole Choice
\* table and not against the question's own choices.
StudentChoiceByQuestion_AnyChoice(quiz_id, answers_by_q) ==
  LET has == {q \in Range(QuestionsOf(questions, quiz_id)) \cap DOMAIN answers_by_q :
                answers[answers_by_q[q]].choice_id \in DOMAIN choices}
  IN  [q \in has |-> answers[answers_by_q[q]].choice_id]

\* student_choice_by_question
StudentChoiceByQuestion(quiz_id, answers_by_q) ==
  LET has == {q \in Range(QuestionsOf(questions, quiz_id)) \cap DOMAIN answers_by_q :
                \E c \in Range(ChoicesOf(choices, q)) :
                  c = answers[answers_by_q[q]].choice_id}
  IN  [q \in has |-> First(ChoicesOf(choices, q), {answers[answers_by_q[q]].choice_id})]

\* ViewDenied without the ownership test.
ViewDenied_RoleOnly(actor, attempt_id) == is_instructor(actor)

\* current_user.is_instructor() or attempt.student_id != current_user.id
ViewDenied(actor, attempt_id) ==
  is_instructor(actor) \/ attempts[attempt_id].student_id # actor

\* GET /attempts/<attempt_id>/result; it reads committed rows only.
ViewAttemptResult(actor, attempt_id) ==
  /\ UNCHANGED <<authoring, attempts, answers, tx>>
  /\ IF attempt_id \notin DOMAIN attempts
       THEN resp' = Response("view", actor, attempt_id, "notfound", <<>>, NoView)
     ELSE IF ViewDenied(actor, attempt_id)
       THEN resp' = Response("view", actor, attempt_id, "denied", <<>>, NoView)
     ELSE LET quiz_id == attempts[attempt_id].quiz_id
              answers_by_q == AnswersByQ(AnswersOf(answers, attempt_id))
          IN  resp' = Response("view", actor, attempt_id, "ok", <<>>,
                        [answers_by_q |-> answers_by_q,
                         correct_by_question |-> CorrectByQuestion(quiz_id),
                         student_choice_by_question |->
                           StudentChoiceByQuestion(quiz_id, answers_by_q)])

\* ------------------------------------------------------------------ inputs
\* Form payloads.  A field holds what request.form.get returns for its key.
QText(i) == <<"q", Digits[i + 1]>>

CText(c) == <<"c", Digits[c + 1]>>

\* The four choice fields of one question: those in `present` carry a text.
Row(present) == [c \in 1..4 |-> IF c \in present THEN CText(c) ELSE None]

QIn(text, row, correct) == [text |-> text, choice |-> row, correct |-> correct]

Title == <<"T">>

EmptyForm == [title |-> None, q |-> <<>>, c |-> <<>>]

\* choice fields and q{i}_correct of one question, as submitted together
RowsAndCorrect ==
  { <<Row({1, 2, 3, 4}), Str(4)>>,
    <<Row({1, 2, 3, 4}), None>>,
    <<Row({2, 4}), Str(2)>>,
    <<Row({2, 4}), <<"0", "2">>>>,
    <<[Row({1, 3}) EXCEPT ![2] = <<>>], Str(3)>>,
    <<[Row({1, 2}) EXCEPT ![1] = <<" ">> \o CText(1)], Str(1)>>,
    <<Row({}), Str(1)>> }

\* q{i}_text: absent, empty, blank, or a text with a leading blank
TextKinds == {"absent", "empty", "blank", "text"}

TextOf(kind, i) ==
  CASE kind = "absent" -> None
    [] kind = "empty" -> <<>>
    [] kind = "blank" -> <<" ">>
    [] OTHER -> <<" ">> \o QText(i)

\* create_quiz payloads of the creation specification
CreateForms ==
  { [title |-> Title, c |-> <<>>,
     q |-> [i \in 1..MaxFormIndex |-> QIn(TextOf(tk[i], i), rc[i][1], rc[i][2])]] :
      tk \in [1..MaxFormIndex -> TextKinds], rc \in [1..MaxFormIndex -> RowsAndCorrect] }

Gap == QIn(None, Row({}), None)

QA(i) == QIn(QText(i), Row({1, 2}), Str(1))

QB(i) == QIn(QText(i), Row({1, 3}), Str(3))

QZ(i) == QIn(QText(i), Row({}), None)

\* create_quiz payloads of the other specifications: index 1 and 2 vary,
\* later indices are absent
LeanCreateForms ==
  { [title |-> Title, c |-> <<>>,
     q |-> [i \in 1..MaxFormIndex |-> IF i = 1 THEN a ELSE IF i = 2 THEN b ELSE Gap]] :
      a \in {Gap, QA(1), QZ(1)}, b \in {Gap, QB(2)} }

\* Payloads with a missing, an empty and a blank title.
UntitledForms == { [EmptyForm EXCEPT !.title = t] : t \in {None, <<>>, <<" ">>} }

\* edit_quiz payloads for a quiz: one replacement text for the title and for
\* all question and choice texts, one q{id}_correct value per question
EditForms(quiz_id, Texts, Corrects) ==
  LET qids == Range(QuestionsOf(questions, quiz_id))
      cids == {k \in DOMAIN choices : choices[k].question_id \in qids}
  IN  { [title |-> t,
         q |-> [k \in qids |-> [text |-> t, correct |-> corr[k]]],
         c |-> [k \in cids |-> t]] :
          t \in Texts, corr \in [qids -> Corrects] }

\* values of q{question_id}_correct: absent, empty, every choice id, a choice
\* id written with a leading zero, an id of no choice
AllCorrects ==
  {None, <<>>, <<"0", "1">>, Str(Len(choices) + 1)} \cup {Str(k) : k \in DOMAIN choices}

LeanCorrects == {None, Str(1), Str(4)}

\* take_quiz payloads for a quiz: per question absent, empty, not a number,
\* every choice id, a choice id with a leading blank, an id of no choice
Selections ==
  {None, <<>>, <<"x">>, <<" ">> \o Str(1), Str(Len(choices) + 1)}
    \cup {Str(k) : k \in DOMAIN choices}

TakeForms(quiz_id) == [Range(QuestionsOf(questions, quiz_id)) -> Selections]

QuizIds == 1..(MaxQuizzes + 1)

AttemptIds == 1..(MaxAttempts + 1)

\* --------------------------------------------------------- specifications
\* The payload is read on the owner's path only: other requests carry none.
CreateReadsForm(actor, course_id) ==
  is_instructor(actor) /\ course_id \in Courses /\ CourseInstructor(course_id) = actor

EditReadsForm(actor, quiz_id) ==
  /\ is_instructor(actor)
  /\ quiz_id \in DOMAIN quizzes
  /\ CourseInstructor(quizzes[quiz_id].course_id) = actor

TakeReadsForm(actor, quiz_id) == quiz_id \in DOMAIN quizzes /\ ~is_instructor(actor)

Create(Forms) ==
  \E actor \in Users, course_id \in CourseIds :
    \E form \in IF CreateReadsForm(actor, course_id) /\ Len(quizzes) < MaxQuizzes
                  THEN Forms \cup UntitledForms
                ELSE IF CreateReadsForm(actor, course_id) THEN UntitledForms
                ELSE {EmptyForm} :
      CreateQuiz(actor, course_id, form)

Take ==
  \E actor \in Users, quiz_id \in QuizIds :
    \E form \in IF TakeReadsForm(actor, quiz_id) THEN TakeForms(quiz_id) ELSE {<<>>} :
      TakeQuizBegin(actor, quiz_id, form)

View == \E actor \in Users, attempt_id \in AttemptIds : ViewAttemptResult(actor, attempt_id)

\* The whole subsystem.
Next ==
  \/ Create(LeanCreateForms)
  \/ \E actor \in Users, quiz_id \in QuizIds :
       \E form \in IF EditReadsForm(actor, quiz_id)
                     THEN EditForms(quiz_id, {None}, LeanCorrects)
                     ELSE {EmptyForm} :
         EditQuiz(actor, quiz_id, form)
  \/ Take
  \/ TakeQuizAnswer
  \/ TakeQuizCommit
  \/ View

Spec == Init /\ [][Next]_vars

\* Authoring alone, with every kind of edit payload.
NextAuthor ==
  \/ Create(LeanCreateForms)
  \/ \E actor \in Users, quiz_id \in QuizIds :
       \E form \in IF EditReadsForm(actor, quiz_id)
                     THEN EditForms(quiz_id, {None, <<" ">>, <<"e", " ">>}, AllCorrects)
                     ELSE {EmptyForm} :
         EditQuiz(actor, quiz_id, form)

SpecAuthor == Init /\ [][NextAuthor]_vars

\* Quiz creation alone, with every kind of create payload.
NextCreate == Create(CreateForms)

SpecCreate == Init /\ [][NextCreate]_vars

\* ------------------------------------------------------------------ claims
\* The submitted choice identifier of a question resolves to a Choice that is
\* flagged correct.
ResolvesCorrect(form, question_id) ==
  LET v == TakeChoiceId(form, question_id)
  IN  /\ ~Falsy(v)
      /\ IntParse(v).ok
      /\ \E c \in DOMAIN choices : c = IntParse(v).val /\ choices[c].is_correct

NumCorrect(question_id) ==
  Cardinality({c \in DOMAIN choices :
                 choices[c].question_id = question_id /\ choices[c].is_correct})

EditedOk == resp.op = "edit" /\ resp.outcome = "ok"

\* C2, as stated: after any edit_quiz by the owning instructor every question
\* of the edited quiz has exactly one Choice flagged correct.
C2_ExactlyOneCorrect ==
  EditedOk => \A q \in Range(QuestionsOf(questions, resp.target)) : NumCorrect(q) = 1

\* C2, amended: after any edit_quiz by the owning instructor every question of
\* the edited quiz has at most one Choice flagged correct, whatever the flags
\* were before; it has exactly one if and only if the value submitted under
\* q{question_id}_correct is the decimal id of one of that question's choices,
\* and then that choice is the one flagged.
C2_AtMostOneCorrect ==
  EditedOk =>
    \A q \in Range(QuestionsOf(questions, resp.target)) :
      LET own == Range(ChoicesOf(choices, q))
          named == {c \in own : Str(c) = EditQCorrect(resp.form, q)}
      IN  /\ NumCorrect(q) <= 1
          /\ NumCorrect(q) = 1 <=> named # {}
          /\ \A c \in own : choices[c].is_correct <=> c \in named

\* An edit moved the flag of question 1 from its first to its second choice.
C2_Witness ==
  /\ EditedOk
  /\ Len(choices) >= 2
  /\ choices[1].question_id = choices[2].question_id
  /\ ~choices[1].is_correct
  /\ choices[2].is_correct

\* C3: view_attempt_result exposes the lookups exactly when the current actor
\* is the student whose id is the attempt's student_id; every instructor and
\* every other student is denied and gets no lookup.
C3_OnlyOwningStudentViews ==
  (resp.op = "view" /\ resp.target \in DOMAIN attempts) =>
    /\ resp.outcome = "ok" <=>
         (resp.actor = attempts[resp.target].student_id /\ ~is_instructor(resp.actor))
    /\ resp.outcome # "ok" => (resp.outcome = "denied" /\ resp.view = NoView)

\* Another student asked for the result of an attempt and was denied.
C3_Witness ==
  /\ resp.op = "view"
  /\ resp.outcome = "denied"
  /\ resp.target \in DOMAIN attempts
  /\ is_student(resp.actor)
  /\ resp.actor # attempts[resp.target].student_id

\* C4: take_quiz on an existing quiz is denied for every instructor, owner of
\* the quiz's course or not, and a denied take_quiz creates no Attempt and no
\* AttemptAnswer, committed or flushed.
C4_InstructorsCannotTake ==
  /\ [](\A a \in DOMAIN attempts : ~is_instructor(attempts[a].student_id))
  /\ [](tx.pc # "idle" => ~is_instructor(tx.actor))
  /\ []((resp.op = "take" /\ is_instructor(resp.actor)) =>
          resp.outcome \in {"denied", "notfound"})
  /\ [][(resp' # resp /\ resp'.op = "take" /\ resp'.outcome = "denied") =>
          UNCHANGED <<attempts, answers, tx>>]_vars

\* The instructor who owns the course of the quiz was denied.
C4_Witness ==
  /\ resp.op = "take"
  /\ resp.outcome = "denied"
  /\ resp.target \in DOMAIN quizzes
  /\ CourseInstructor(quizzes[resp.target].course_id) = resp.actor

\* The course a create_quiz or edit_quiz response is about.
AuthoredCourse == IF resp.op = "create" THEN resp.target ELSE quizzes[resp.target].course_id

\* C5: create_quiz and edit_quiz go through only for an instructor who owns
\* the course, and a denied call leaves every Quiz, Question and Choice row as
\* it was.
C5_OnlyOwnerAuthors ==
  /\ []((resp.op \in {"create", "edit"} /\ resp.outcome \in {"ok", "invalid"}) =>
          (is_instructor(resp.actor) /\ CourseInstructor(AuthoredCourse) = resp.actor))
  /\ [][(resp'.op \in {"create", "edit"} /\ resp'.outcome = "denied") =>
          UNCHANGED authoring]_vars
  /\ [][authoring' # authoring =>
          (resp'.op \in {"create", "edit"} /\ resp'.outcome = "ok")]_vars

\* An instructor who does not own the course was denied an edit of its quiz.
C5_Witness ==
  /\ resp.op = "edit"
  /\ resp.outcome = "denied"
  /\ is_instructor(resp.actor)
  /\ resp.target \in DOMAIN quizzes
  /\ Len(choices) > 0

CreatedOk == resp.op = "create" /\ resp.outcome = "ok"

\* The quiz a successful create_quiz response is about: the newest one.
CreatedQuiz == Len(quizzes)

\* The smallest index i >= 1 whose q{i}_text is one of `stops`.
FirstIndex(form, stops) ==
  CHOOSE i \in 1..(MaxFormIndex + 1) :
    /\ FormQText(form, i) \in stops
    /\ \A j \in 1..(i - 1) : FormQText(form, j) \notin stops

\* C6, as stated: create_quiz creates Questions exactly for the indices 1..m,
\* where m+1 is the smallest index whose key q{i}_text is missing.
C6_StopsAtFirstMissing ==
  CreatedOk =>
    Len(QuestionsOf(questions, CreatedQuiz)) = FirstIndex(resp.form, {None}) - 1

\* C6, amended: create_quiz creates Questions exactly for the indices 1..m, in
\* that order, where m+1 is the smallest index whose q{i}_text is missing or
\* empty; no question after that index is created.
C6_StopsAtFirstMissingOrEmpty ==
  CreatedOk =>
    LET qids == QuestionsOf(questions, CreatedQuiz)
        m == FirstIndex(resp.form, {None, <<>>}) - 1
    IN  /\ Len(qids) = m
        /\ \A j \in 1..m : questions[qids[j]].text = Strip(resp.form.q[j].text)

\* q1_text and q3_text (with choices) were submitted, q2_text was not usable,
\* and only question 1 exists.
C6_Witness ==
  /\ CreatedOk
  /\ ~Falsy(resp.form.q[1].text)
  /\ Falsy(resp.form.q[2].text)
  /\ ~Falsy(resp.form.q[3].text)
  /\ ~Falsy(resp.form.q[3].choice[2])
  /\ Len(QuestionsOf(questions, CreatedQuiz)) = 1

\* The choice indices of question `index` whose field carries a text.
FilledSlots(form, index) ==
  LET Filled(c) == ~Falsy(FormQChoice(form, index, c))
  IN  SelectSeq(<<1, 2, 3, 4>>, Filled)

\* C7: after a successful create_quiz, loading the quiz yields its questions in
\* submitted index order, each question's choices in submitted choice index
\* order, and each choice flagged exactly when q{i}_correct is the decimal
\* numeral of its index.
C7_RoundTrip ==
  CreatedOk =>
    LET qids == QuestionsOf(questions, CreatedQuiz)
    IN  \A j \in 1..Len(qids) :
          LET cids == ChoicesOf(choices, qids[j])
              slots == FilledSlots(resp.form, j)
          IN  /\ questions[qids[j]].text = Strip(resp.form.q[j].text)
              /\ Len(cids) = Len(slots)
              /\ \A k \in 1..Len(cids) :
                   /\ choices[cids[k]].text = Strip(resp.form.q[j].choice[slots[k]])
                   /\ choices[cids[k]].is_correct <=>
                        (resp.form.q[j].correct = Str(slots[k]))

\* Two questions were created; in one the first choice field was absent and
\* the choice of index 2, loaded first, is the flagged one.
C7_Witness ==
  /\ CreatedOk
  /\ Len(QuestionsOf(questions, CreatedQuiz)) >= 2
  /\ \E j \in 1..Len(QuestionsOf(questions, CreatedQuiz)) :
       LET cids == ChoicesOf(choices, QuestionsOf(questions, CreatedQuiz)[j])
       IN  /\ resp.form.q[j].choice[1] = None
           /\ resp.form.q[j].correct = Str(2)
           /\ Len(cids) = 2
           /\ choices[cids[1]].is_correct
           /\ ~choices[cids[2]].is_correct

\* C8: every Attempt another request can see is graded (score and completion
\* time set) and is there with its AttemptAnswers; the rows of a submission
\* become visible in one step, at commit, and a submission that fails leaves
\* every table as it was.
C8_Atomic ==
  /\ [](\A a \in DOMAIN attempts :
          attempts[a].score # None /\ attempts[a].completed_at # None)
  /\ [](\A x \in DOMAIN answers : answers[x].attempt_id \in DOMAIN attempts)
  /\ [][(attempts' # attempts \/ answers' # answers) =>
          /\ tx.pc = "loop" /\ tx.todo = <<>> /\ tx' = Idle
          /\ Len(attempts') = Len(attempts) + 1
          /\ answers' = answers \o tx.answers
          /\ resp'.outcome = "ok"]_vars
  /\ [][(tx.pc = "loop" /\ tx' = Idle /\ resp'.outcome = "error") =>
          UNCHANGED <<authoring, attempts, answers>>]_vars

\* A submission on a two-question quiz failed and the tables show no trace
\* of it.
C8_Witness ==
  /\ resp.op = "take"
  /\ resp.outcome = "error"
  /\ tx = Idle
  /\ Len(QuestionsOf(questions, resp.target)) = 2
  /\ attempts = <<>>
  /\ answers = <<>>

\* C9: every Question has at most one Choice flagged correct.
C9_AtMostOneCorrectEver == \A q \in DOMAIN questions : NumCorrect(q) <= 1

\* After an edit one question has its flag and another, with choices, has none.
C9_Witness ==
  /\ EditedOk
  /\ \E q \in DOMAIN questions : NumCorrect(q) = 1
  /\ \E q \in DOMAIN questions : NumCorrect(q) = 0 /\ Len(ChoicesOf(choices, q)) >= 2

ViewedOk == resp.op = "view" /\ resp.outcome = "ok"

\* C10: the owning student's view_attempt_result succeeds, and for every
\* question q of the quiz, student_choice_by_question has q exactly when the
\* attempt has an AttemptAnswer for q whose choice id is the id of one of q's
\* Choices, and then maps q to that Choice.
C10_StudentChoiceLookup ==
  /\ (resp.op = "view" /\ resp.target \in DOMAIN attempts
        /\ resp.actor = attempts[resp.target].student_id) => resp.outcome = "ok"
  /\ ViewedOk =>
       LET lookup == resp.view.student_choice_by_question
           qids == Range(QuestionsOf(questions, attempts[resp.target].quiz_id))
       IN  /\ DOMAIN lookup \subseteq qids
           /\ \A q \in qids :
                LET hits == {c \in Range(ChoicesOf(choices, q)) :
                               \E x \in Range(AnswersOf(answers, resp.target)) :
                                 /\ answers[x].question_id = q
                                 /\ answers[x].choice_id = c}
                IN  /\ q \in DOMAIN lookup <=> hits # {}
                    /\ q \in DOMAIN lookup => lookup[q] \in hits

\* A result was shown in which one answered question is in the lookup and
\* another, whose stored choice id is the id of no Choice, is not.
C10_Witness ==
  /\ ViewedOk
  /\ \E q \in DOMAIN resp.view.answers_by_q :
       /\ q \notin DOMAIN resp.view.student_choice_by_question
       /\ answers[resp.view.answers_by_q[q]].choice_id \notin DOMAIN choices
  /\ resp.view.student_choice_by_question # <<>>

\* The selection submitted for a question: the value of question_{id}.
Submitted(form, question_id) ==
  IF question_id \in DOMAIN form THEN form[question_id] ELSE None

\* C11: a committed submission adds, for the new Attempt, exactly one
\* AttemptAnswer for each question of the quiz with a non-empty selection,
\* holding the question's id and the number the selection denotes (whether or
\* not it is the id of a Choice), and none for a question without a selection;
\* the answers of earlier attempts stay as they were.
C11_OneAnswerPerSelection ==
  [][Len(attempts') > Len(attempts) =>
       LET id == Len(attempts')
           qs == Range(QuestionsOf(questions, attempts'[id].quiz_id))
           new == Range(AnswersOf(answers', id))
       IN  /\ SubSeq(answers', 1, Len(answers)) = answers
           /\ new = (Len(answers) + 1)..Len(answers')
           /\ Cardinality(new) = Cardinality({q \in qs : ~Falsy(Submitted(tx.form, q))})
           /\ \A x \in new : answers'[x].question_id \in qs
           /\ \A q \in qs :
                LET rows == {x \in new : answers'[x].question_id = q}
                IN  IF Falsy(Submitted(tx.form, q)) THEN rows = {}
                    ELSE /\ Cardinality(rows) = 1
                         /\ \A x \in rows :
                              answers'[x].choice_id = IntParse(Submitted(tx.form, q)).val]_vars

\* An attempt on a two-question quiz has one answer only, and that answer
\* holds the id of no Choice.
C11_Witness ==
  \E a \in DOMAIN attempts :
    /\ Len(QuestionsOf(questions, attempts[a].quiz_id)) = 2
    /\ Len(AnswersOf(answers, a)) = 1
    /\ answers[AnswersOf(answers, a)[1]].choice_id \notin DOMAIN choices

\* The indices before the first missing q{i}_text whose text is not empty.
NonEmptyIndices(form) ==
  LET NotEmpty(i) == FormQText(form, i) # <<>>
  IN  SelectSeq([i \in 1..(FirstIndex(form, {None}) - 1) |-> i], NotEmpty)

\* The texts of the choices of a question, as loaded.
ChoiceTexts(question_id) ==
  [k \in 1..Len(ChoicesOf(choices, question_id)) |->
     choices[ChoicesOf(choices, question_id)[k]].text]

\* The texts create_quiz is to store for the non-empty choice fields of
\* question `index`, in field order.
SubmittedChoiceTexts(form, index) ==
  [k \in 1..Len(FilledSlots(form, index)) |->
     Strip(FormQChoice(form, index, FilledSlots(form, index)[k]))]

\* C12, as stated: an empty q{i}_text or q{i}_choice{c} is skipped and the
\* entries at later indices are still created, so the quiz has one Question
\* for every index with a non-empty text before the first missing key, each
\* with its non-empty choices.
C12_EmptySkippedLaterCreated ==
  CreatedOk =>
    LET qids == QuestionsOf(questions, CreatedQuiz)
        kept == NonEmptyIndices(resp.form)
    IN  /\ Len(qids) = Len(kept)
        /\ \A j \in 1..Len(qids) :
             /\ questions[qids[j]].text = Strip(resp.form.q[kept[j]].text)
             /\ ChoiceTexts(qids[j]) = SubmittedChoiceTexts(resp.form, kept[j])

\* C12, amended: no Choice is created for an empty q{i}_choice{c} and the
\* later choices of the same question are still created; no Question is
\* created for an empty q{i}_text, and an empty q{i}_text ends the parsing, so
\* that no question of a later index is created either.
C12_EmptyChoiceSkippedEmptyQuestionStops ==
  CreatedOk =>
    LET qids == QuestionsOf(questions, CreatedQuiz)
    IN  /\ \A i \in 1..MaxFormIndex : FormQText(resp.form, i) = <<>> => Len(qids) < i
        /\ \A j \in 1..Len(qids) :
             ChoiceTexts(qids[j]) = SubmittedChoiceTexts(resp.form, j)

\* Question 1 was submitted with an empty second choice and a third choice,
\* and has two choices; q2_text was empty, q3_text was not, and question 1 is
\* the only question.
C12_Witness ==
  /\ CreatedOk
  /\ resp.form.q[1].choice[2] = <<>>
  /\ ~Falsy(resp.form.q[1].choice[3])
  /\ resp.form.q[2].text = <<>>
  /\ ~Falsy(resp.form.q[3].text)
  /\ Len(QuestionsOf(questions, CreatedQuiz)) = 1
  /\ Len(ChoicesOf(choices, QuestionsOf(questions, CreatedQuiz)[1])) = 2

\* C13: every stored AttemptAnswer whose choice_id is the id of a Choice
\* names a Choice of the AttemptAnswer's own Question.
C13_AnswersReferenceOwnChoice ==
  \A x \in DOMAIN answers :
    answers[x].choice_id \in DOMAIN choices =>
      choices[answers[x].choice_id].question_id = answers[x].question_id

====
